---- MODULE Spec2Model ----
(***************************************************************************)
(* Recipe API: the request handlers of app/recipe/views.py over the        *)
(* relational state they read and write (recipes, tags, ingredients and    *)
(* the two many-to-many link sets).  One action per HTTP request; the      *)
(* variable "response" holds the last request together with its answer     *)
(* (a request answered 401 or 404 is rejected before its body is read).    *)
(***************************************************************************)
EXTENDS Integers, Sequences, FiniteSets, TLC

\* ---------------------------------------------------------------- bounds
\* Auto-increment primary keys are never reused; the bounds cap how many
\* rows of each table are ever inserted.
MaxRecipes == 2
\* Tag rows and ingredient rows together.
MaxAttrs == 2

\* ---------------------------------------------------------------- inputs
Users == {"test@example.com", "other@example.com"}
TagNames == {"Dinner", "Lunch"}
IngredientNames == {"Chicken", "Rice"}

\* Position of a name in the collation order used by order_by('-name').
NameRank(n) ==
    CASE n = "Chicken" -> 1
      [] n = "Dinner" -> 2
      [] n = "Lunch" -> 3
      [] n = "Rice" -> 4

\* An optional value (a key that may be missing from a payload) is the empty
\* set or a singleton.
None == {}
Some(x) == {x}
Get(o) == CHOOSE x \in o : TRUE

\* Scalar field values of the test payloads; prices in cents.
ScalarPayloads ==
    { [title |-> "Sample Recipe", time_minutes |-> 30, price |-> 1099],
      [title |-> "New recipe title", time_minutes |-> 10, price |-> 250] }

\* A request body for the recipe endpoints.
Payload(title, time_minutes, price, user, tgs, ings) ==
    [title |-> title, time_minutes |-> time_minutes, price |-> price,
     user |-> user, tags |-> tgs, ingredients |-> ings]

VARIABLES recipes, tags, ingredients,
          nextRecipeId, nextTagId, nextIngredientId,
          response

vars == <<recipes, tags, ingredients,
          nextRecipeId, nextTagId, nextIngredientId, response>>
db == <<recipes, tags, ingredients, nextRecipeId, nextTagId, nextIngredientId>>

NoRequest == [op |-> "none", user |-> "", status |-> 0, req |-> <<>>,
              id |-> 0, data |-> <<>>]

Init ==
    /\ recipes = <<>>
    /\ tags = <<>>
    /\ ingredients = <<>>
    /\ nextRecipeId = 1
    /\ nextTagId = 1
    /\ nextIngredientId = 1
    /\ response = NoRequest

\* ------------------------------------------------------------- querysets
Max(S) == CHOOSE m \in S : \A x \in S : x <= m

RECURSIVE OrderByIdDesc(_)
OrderByIdDesc(S) ==
    IF S = {} THEN <<>>
    ELSE <<Max(S)>> \o OrderByIdDesc(S \ {Max(S)})

Range(s) == {s[i] : i \in DOMAIN s}

\* Mutant: the owner filter dropped.
Recipe_get_queryset_all(u) ==
    OrderByIdDesc(DOMAIN recipes)

\* RecipeViewSet.get_queryset: the rows of the recipe table owned by the
\* requesting user, newest first.  The query parameters are not read.
Recipe_get_queryset(u) ==
    OrderByIdDesc({r \in DOMAIN recipes : recipes[r].user = u})

\* GenericAPIView.get_object as used by the detail routes: the row with the
\* given primary key within get_queryset(), or 404.
Recipe_get_object(u, id) ==
    IF id \in Range(Recipe_get_queryset(u)) THEN Some(id) ELSE None


\* ------------------------------------------------- recipe serializer
\* RecipeDetailSerializer.is_valid: title, time_minutes and price are
\* required unless the update is partial (PATCH).
is_valid(p, partial) ==
    partial \/ (p.title # None /\ p.time_minutes # None /\ p.price # None)

\* Mutant: 'user' accepted as a writable serializer field.
validated_data_with_user(p) == p

\* RecipeDetailSerializer.validated_data: the declared fields of the payload;
\* 'user' is not a serializer field and is dropped.
validated_data(p) == [p EXCEPT !.user = None]

Serializer(p) == [initial_data |-> p, validated_data |-> validated_data(p)]

\* Mutant: a name is looked up among the tags of every user.
get_or_create_any_user(table, u, n) ==
    {i \in DOMAIN table : table[i].name = n}

\* Manager.get_or_create(user=auth_user, name=n), lookup part: the rows that
\* match.  No row: one is inserted; one row: it is returned; several rows:
\* MultipleObjectsReturned.
get_or_create(table, u, n) ==
    {i \in DOMAIN table : table[i].user = u /\ table[i].name = n}

\* RecipeSerializer._get_or_create_tags / _get_or_create_ingredients: for each
\* name of the nested list in turn, get or create the requesting user's
\* object of that name and add it to the recipe.  "linked" is the recipe's
\* link set so far, "next" the table's next primary key; err is set when a
\* lookup raises, with the rows written so far kept.
RECURSIVE get_or_create_attrs(_, _, _, _, _)
get_or_create_attrs(table, next, u, names, linked) ==
    IF names = <<>>
    THEN [table |-> table, next |-> next, linked |-> linked, err |-> FALSE]
    ELSE LET n == Head(names)
             m == get_or_create(table, u, n)
         IN IF Cardinality(m) > 1
            THEN [table |-> table, next |-> next, linked |-> linked,
                  err |-> TRUE]
            ELSE IF m = {}
            THEN get_or_create_attrs(
                     table @@ (next :> [user |-> u, name |-> n]), next + 1, u,
                     Tail(names), linked \cup {next})
            ELSE get_or_create_attrs(table, next, u, Tail(names),
                                     linked \cup m)

Unchanged(table, next, linked) ==
    [table |-> table, next |-> next, linked |-> linked, err |-> FALSE]

\* RecipeSerializer.create: insert the recipe row, then link the nested tags
\* and ingredients.  Returns the tables after the call and the HTTP status.
Serializer_create(data, u) ==
    LET id == nextRecipeId
        T == IF data.tags = None THEN Unchanged(tags, nextTagId, {})
             ELSE get_or_create_attrs(tags, nextTagId, u, Get(data.tags), {})
        I == IF data.ingredients = None \/ T.err
             THEN Unchanged(ingredients, nextIngredientId, {})
             ELSE get_or_create_attrs(ingredients, nextIngredientId, u,
                                      Get(data.ingredients), {})
        row == [user |-> Get(data.user), title |-> Get(data.title),
                time_minutes |-> Get(data.time_minutes),
                price |-> Get(data.price),
                tags |-> T.linked, ingredients |-> I.linked]
    IN IF data.user = None
       THEN [recipes |-> recipes, nextRecipeId |-> nextRecipeId,
             tags |-> tags, nextTagId |-> nextTagId,
             ingredients |-> ingredients,
             nextIngredientId |-> nextIngredientId,
             status |-> 500, id |-> 0]
       ELSE [recipes |-> recipes @@ (id :> row), nextRecipeId |-> id + 1,
             tags |-> T.table, nextTagId |-> T.next,
             ingredients |-> I.table, nextIngredientId |-> I.next,
             status |-> IF T.err \/ I.err THEN 500 ELSE 201, id |-> id]

\* Mutant: the links are not cleared before the named objects are added.
Serializer_update_no_clear(id, data, u) ==
    LET old == recipes[id]
        T == IF data.tags = None THEN Unchanged(tags, nextTagId, old.tags)
             ELSE get_or_create_attrs(tags, nextTagId, u, Get(data.tags),
                                      old.tags)
        I == IF data.ingredients = None \/ T.err
             THEN Unchanged(ingredients, nextIngredientId, old.ingredients)
             ELSE get_or_create_attrs(ingredients, nextIngredientId, u,
                                      Get(data.ingredients), old.ingredients)
        err == T.err \/ I.err
        Field(f) == IF data[f] = None \/ err THEN old[f] ELSE Get(data[f])
        row == [user |-> Field("user"), title |-> Field("title"),
                time_minutes |-> Field("time_minutes"),
                price |-> Field("price"),
                tags |-> T.linked, ingredients |-> I.linked]
    IN [recipes |-> [recipes EXCEPT ![id] = row],
        nextRecipeId |-> nextRecipeId,
        tags |-> T.table, nextTagId |-> T.next,
        ingredients |-> I.table, nextIngredientId |-> I.next,
        status |-> IF err THEN 500 ELSE 200, id |-> id]

\* RecipeSerializer.update: a 'tags' (respectively 'ingredients') key clears
\* the recipe's links and links the named objects; then every other key of the
\* data is assigned to the instance and the row is saved.
Serializer_update(id, data, u) ==
    LET old == recipes[id]
        T == IF data.tags = None THEN Unchanged(tags, nextTagId, old.tags)
             ELSE get_or_create_attrs(tags, nextTagId, u, Get(data.tags), {})
        I == IF data.ingredients = None \/ T.err
             THEN Unchanged(ingredients, nextIngredientId, old.ingredients)
             ELSE get_or_create_attrs(ingredients, nextIngredientId, u,
                                      Get(data.ingredients), {})
        err == T.err \/ I.err
        Field(f) == IF data[f] = None \/ err THEN old[f] ELSE Get(data[f])
        row == [user |-> Field("user"), title |-> Field("title"),
                time_minutes |-> Field("time_minutes"),
                price |-> Field("price"),
                tags |-> T.linked, ingredients |-> I.linked]
    IN [recipes |-> [recipes EXCEPT ![id] = row],
        nextRecipeId |-> nextRecipeId,
        tags |-> T.table, nextTagId |-> T.next,
        ingredients |-> I.table, nextIngredientId |-> I.next,
        status |-> IF err THEN 500 ELSE 200, id |-> id]

\* ------------------------------------------------------ authentication
\* request.user of a request that carries no valid token.
AnonymousUser == "AnonymousUser"

\* rest_framework.permissions.IsAuthenticated.has_permission
IsAuthenticated(u) == u # AnonymousUser

\* Mutant: the permission class left out (the framework default AllowAny).
AllowAny(u) == TRUE

\* RecipeViewSet.authentication_classes / permission_classes
Recipe_permission_classes(u) == IsAuthenticated(u)

\* BaseRecipeAttrViewSet.authentication_classes / permission_classes
Attr_permission_classes(u) == IsAuthenticated(u)

\* ------------------------------------------------------- recipe views
\* Mutant: the owner is taken from the request body when it names one.
perform_create_from_body(serializer, u) ==
    [serializer.validated_data EXCEPT
        !.user = IF serializer.initial_data.user # None
                 THEN serializer.initial_data.user ELSE Some(u)]

\* RecipeViewSet.perform_create: serializer.save(user=self.request.user); the
\* keyword overrides whatever the validated data holds under 'user'.
perform_create(serializer, u) ==
    [serializer.validated_data EXCEPT !.user = Some(u)]

\* UpdateModelMixin.perform_update (not overridden): serializer.save().
perform_update(serializer) == serializer.validated_data

Respond(op, u, status, req, id, data) ==
    [op |-> op, user |-> u, status |-> status, req |-> req, id |-> id,
     data |-> data]

\* APIView.initial failing in check_permissions: 401 before the handler runs.
NotAuthenticated(op, u, req, id) ==
    /\ response' = Respond(op, u, 401, req, id, <<>>)
    /\ UNCHANGED db

Store(out) ==
    /\ (out.nextTagId - 1) + (out.nextIngredientId - 1) <= MaxAttrs
    /\ recipes' = out.recipes
    /\ nextRecipeId' = out.nextRecipeId
    /\ tags' = out.tags
    /\ nextTagId' = out.nextTagId
    /\ ingredients' = out.ingredients
    /\ nextIngredientId' = out.nextIngredientId

\* POST /api/recipe/recipes/
RecipeCreate(u, p) ==
    IF ~Recipe_permission_classes(u)
    THEN NotAuthenticated("recipe_create", u, <<>>, 0)
    ELSE
    IF ~is_valid(p, FALSE)
    THEN /\ response' = Respond("recipe_create", u, 400, p, 0, <<>>)
         /\ UNCHANGED db
    ELSE LET out == Serializer_create(perform_create(Serializer(p), u), u)
         IN /\ nextRecipeId <= MaxRecipes
            /\ Store(out)
            /\ response' = Respond("recipe_create", u, out.status, p,
                                   out.id, <<>>)

\* PUT (partial = FALSE) or PATCH (partial = TRUE) /api/recipe/recipes/<id>/
RecipeUpdate(u, id, partial, p) ==
    LET op == IF partial THEN "recipe_patch" ELSE "recipe_put"
    IN IF ~Recipe_permission_classes(u)
       THEN NotAuthenticated(op, u, <<>>, id)
       ELSE
       IF Recipe_get_object(u, id) = None
       THEN /\ response' = Respond(op, u, 404, <<>>, id, <<>>)
            /\ UNCHANGED db
       ELSE IF ~is_valid(p, partial)
       THEN /\ response' = Respond(op, u, 400, p, id, <<>>)
            /\ UNCHANGED db
       ELSE LET out == Serializer_update(id, perform_update(Serializer(p)), u)
            IN /\ Store(out)
               /\ response' = Respond(op, u, out.status, p, id, <<>>)

\* DELETE /api/recipe/recipes/<id>/
RecipeDestroy(u, id) ==
    IF ~Recipe_permission_classes(u)
    THEN NotAuthenticated("recipe_delete", u, <<>>, id)
    ELSE
    IF Recipe_get_object(u, id) = None
    THEN /\ response' = Respond("recipe_delete", u, 404, <<>>, id, <<>>)
         /\ UNCHANGED db
    ELSE /\ recipes' = [r \in DOMAIN recipes \ {id} |-> recipes[r]]
         /\ response' = Respond("recipe_delete", u, 204, <<>>, id, <<>>)
         /\ UNCHANGED <<tags, ingredients, nextRecipeId, nextTagId,
                        nextIngredientId>>

\* GET /api/recipe/recipes/?tags=..&ingredients=..
RecipeList(u, params) ==
    IF ~Recipe_permission_classes(u)
    THEN NotAuthenticated("recipe_list", u, params, 0)
    ELSE /\ response' = Respond("recipe_list", u, 200, params, 0,
                                Recipe_get_queryset(u))
         /\ UNCHANGED db


\* ------------------------------------------- tag and ingredient views
\* TagViewSet.queryset / IngredientViewSet.queryset
Table(kind) == IF kind = "tag" THEN tags ELSE ingredients

\* The recipe's side of the many-to-many relation of that kind.
Links(kind, r) ==
    IF kind = "tag" THEN recipes[r].tags ELSE recipes[r].ingredients

\* The orders order_by('-name') may return the rows in: descending by name,
\* rows of equal name in either order.  A row is <<primary key, join key>>.
OrderByNameDesc(kind, rows) ==
    LET n == Cardinality(rows)
        sorted == {f \in [1..n -> rows] :
                     /\ \A i, j \in 1..n : i # j => f[i] # f[j]
                     /\ \A i, j \in 1..n : i < j =>
                          NameRank(Table(kind)[f[i][1]].name)
                            >= NameRank(Table(kind)[f[j][1]].name)}
    IN {[i \in 1..n |-> f[i][1]] : f \in sorted}

\* Mutant: the rows come from a join with the recipes the object is linked
\* to, one row per link, without distinct().
Attr_get_queryset_join(kind, u) ==
    OrderByNameDesc(kind,
        {x \in {i \in DOMAIN Table(kind) : Table(kind)[i].user = u}
                  \X DOMAIN recipes : x[1] \in Links(kind, x[2])})

\* Mutant: the owner filter dropped.
Attr_get_queryset_all(kind, u) ==
    OrderByNameDesc(kind, {<<i, 0>> : i \in DOMAIN Table(kind)})

\* BaseRecipeAttrViewSet.get_queryset: the rows of the table owned by the
\* requesting user, by descending name.  The query parameters are not read.
\* The value is the set of row orders the database may answer with.
Attr_get_queryset(kind, u) ==
    OrderByNameDesc(kind,
        {<<i, 0>> : i \in {i \in DOMAIN Table(kind) : Table(kind)[i].user = u}})

Attr_get_object(kind, u, id) ==
    IF \E s \in Attr_get_queryset(kind, u) : id \in Range(s)
    THEN Some(id) ELSE None

\* UpdateModelMixin.update with TagSerializer / IngredientSerializer: the
\* name is the only writable field.
Attr_update(kind, id, name) ==
    [Table(kind) EXCEPT ![id].name = name]

\* DestroyModelMixin.destroy: the row goes, and with it its link rows.
Attr_destroy(kind, id) ==
    [i \in DOMAIN Table(kind) \ {id} |-> Table(kind)[i]]

Unlink(kind, id) ==
    [r \in DOMAIN recipes |->
        IF kind = "tag"
        THEN [recipes[r] EXCEPT !.tags = @ \ {id}]
        ELSE [recipes[r] EXCEPT !.ingredients = @ \ {id}]]

\* PATCH /api/recipe/tags/<id>/
TagUpdate(u, id, name) ==
    IF ~Attr_permission_classes(u)
    THEN NotAuthenticated("tag_patch", u, <<>>, id)
    ELSE
    IF Attr_get_object("tag", u, id) = None
    THEN /\ response' = Respond("tag_patch", u, 404, <<>>, id, <<>>)
         /\ UNCHANGED db
    ELSE /\ tags' = Attr_update("tag", id, name)
         /\ response' = Respond("tag_patch", u, 200, name, id, <<>>)
         /\ UNCHANGED <<recipes, ingredients, nextRecipeId, nextTagId,
                        nextIngredientId>>

\* DELETE /api/recipe/tags/<id>/
TagDestroy(u, id) ==
    IF ~Attr_permission_classes(u)
    THEN NotAuthenticated("tag_delete", u, <<>>, id)
    ELSE
    IF Attr_get_object("tag", u, id) = None
    THEN /\ response' = Respond("tag_delete", u, 404, <<>>, id, <<>>)
         /\ UNCHANGED db
    ELSE /\ tags' = Attr_destroy("tag", id)
         /\ recipes' = Unlink("tag", id)
         /\ response' = Respond("tag_delete", u, 204, <<>>, id, <<>>)
         /\ UNCHANGED <<ingredients, nextRecipeId, nextTagId,
                        nextIngredientId>>

\* PATCH /api/recipe/ingredients/<id>/
IngredientUpdate(u, id, name) ==
    IF ~Attr_permission_classes(u)
    THEN NotAuthenticated("ingredient_patch", u, <<>>, id)
    ELSE
    IF Attr_get_object("ingredient", u, id) = None
    THEN /\ response' = Respond("ingredient_patch", u, 404, <<>>, id, <<>>)
         /\ UNCHANGED db
    ELSE /\ ingredients' = Attr_update("ingredient", id, name)
         /\ response' = Respond("ingredient_patch", u, 200, name, id, <<>>)
         /\ UNCHANGED <<recipes, tags, nextRecipeId, nextTagId,
                        nextIngredientId>>

\* DELETE /api/recipe/ingredients/<id>/
IngredientDestroy(u, id) ==
    IF ~Attr_permission_classes(u)
    THEN NotAuthenticated("ingredient_delete", u, <<>>, id)
    ELSE
    IF Attr_get_object("ingredient", u, id) = None
    THEN /\ response' = Respond("ingredient_delete", u, 404, <<>>, id, <<>>)
         /\ UNCHANGED db
    ELSE /\ ingredients' = Attr_destroy("ingredient", id)
         /\ recipes' = Unlink("ingredient", id)
         /\ response' = Respond("ingredient_delete", u, 204, <<>>, id, <<>>)
         /\ UNCHANGED <<tags, nextRecipeId, nextTagId, nextIngredientId>>

\* GET /api/recipe/ingredients/?assigned_only=..
IngredientList(u, params) ==
    IF ~Attr_permission_classes(u)
    THEN NotAuthenticated("ingredient_list", u, params, 0)
    ELSE /\ \E s \in Attr_get_queryset("ingredient", u) :
               response' = Respond("ingredient_list", u, 200, params, 0, s)
         /\ UNCHANGED db

\* ---------------------------------------------------- request inputs
RecipeIds == 1..MaxRecipes
TagIds == 1..MaxAttrs
IngredientIds == 1..MaxAttrs

OptUsers == {None} \cup {Some(v) : v \in Users}

\* Bodies with scalar fields only, with and without a 'user' key; the last
\* one lacks the required title.
ScalarBodies ==
    {Payload(Some(s.title), Some(s.time_minutes), Some(s.price), usr,
             None, None) : s \in ScalarPayloads, usr \in OptUsers}
      \cup {Payload(None, Some(30), Some(1099), None, None, None)}

\* Partial bodies: a title alone, a 'user' key alone.
PartialBodies ==
    {Payload(Some(s.title), None, None, None, None, None) :
        s \in ScalarPayloads}
      \cup {Payload(None, None, None, usr, None, None) :
              usr \in OptUsers \ {None}}

\* Nested name lists: absent, empty, one name, two names, a repeated name.
NameLists(a, b) ==
    {None, Some(<<>>), Some(<<a>>), Some(<<b>>), Some(<<a, b>>),
     Some(<<a, a>>)}

NestedLists ==
    {<<t, None>> : t \in NameLists("Dinner", "Lunch")}
      \cup {<<None, i>> : i \in NameLists("Chicken", "Rice")}
      \cup {<<Some(<<"Dinner">>), Some(<<"Rice">>)>>}

NestedCreateBodies ==
    {Payload(Some("Sample Recipe"), Some(30), Some(1099), None, l[1], l[2]) :
        l \in NestedLists}

\* Full bodies for PUT: a replaced tag list, a cleared ingredient list, and
\* one without the required title.
NestedPutBodies ==
    {Payload(Some("Sample Recipe"), Some(30), Some(1099), None,
             Some(<<"Lunch">>), None),
     Payload(Some("Sample Recipe"), Some(30), Some(1099), None,
             None, Some(<<>>)),
     Payload(None, Some(30), Some(1099), None, Some(<<"Lunch">>), None)}

NestedPatchBodies ==
    {Payload(None, None, None, None, l[1], l[2]) : l \in NestedLists}

\* 'tags' / 'ingredients' query parameters: comma-separated primary keys.
IdLists(ids) == {OrderByIdDesc(S) : S \in SUBSET ids \ {{}}}

RecipeListParams ==
    {[tags |-> None, ingredients |-> None]}
      \cup {[tags |-> Some(l), ingredients |-> None] : l \in IdLists(TagIds)}
      \cup {[tags |-> None, ingredients |-> Some(l)] :
              l \in IdLists(IngredientIds)}

AttrListParams == {[assigned_only |-> a] : a \in {None, Some(0), Some(1)}}

\* ------------------------------------------------------ specifications
\* Recipe create, update, delete and list with scalar bodies.
Next ==
    \/ \E u \in Users, p \in ScalarBodies : RecipeCreate(u, p)
    \/ \E u \in Users, id \in RecipeIds, p \in ScalarBodies :
          RecipeUpdate(u, id, FALSE, p)
    \/ \E u \in Users, id \in RecipeIds, p \in ScalarBodies \cup PartialBodies :
          RecipeUpdate(u, id, TRUE, p)
    \/ \E u \in Users, id \in RecipeIds : RecipeDestroy(u, id)
    \/ \E u \in Users : RecipeList(u, [tags |-> None, ingredients |-> None])

Spec == Init /\ [][Next]_vars

\* Requests to the recipe and ingredient endpoints that carry no token.
NextAnonymous ==
    \/ RecipeCreate(AnonymousUser,
           Payload(Some("Sample Recipe"), Some(30), Some(1099), None,
                   Some(<<"Dinner">>), Some(<<"Rice">>)))
    \/ \E id \in RecipeIds :
          RecipeUpdate(AnonymousUser, id, TRUE,
              Payload(None, None, None, None, Some(<<>>), Some(<<"Rice">>)))
    \/ \E id \in RecipeIds : RecipeDestroy(AnonymousUser, id)
    \/ RecipeList(AnonymousUser, [tags |-> None, ingredients |-> None])
    \/ \E id \in IngredientIds, n \in IngredientNames :
          IngredientUpdate(AnonymousUser, id, n)
    \/ \E id \in IngredientIds : IngredientDestroy(AnonymousUser, id)
    \/ IngredientList(AnonymousUser, [assigned_only |-> None])

\* Recipe writes with nested tags and ingredients, the tag and ingredient
\* endpoints, and the filtered lists.
NextAttrs ==
    \/ \E u \in Users, p \in NestedCreateBodies : RecipeCreate(u, p)
    \/ \E u \in Users, id \in RecipeIds, p \in NestedPatchBodies :
          RecipeUpdate(u, id, TRUE, p)
    \/ \E u \in Users, id \in RecipeIds, p \in NestedPutBodies :
          RecipeUpdate(u, id, FALSE, p)
    \/ \E u \in Users, id \in RecipeIds : RecipeDestroy(u, id)
    \/ \E u \in Users, q \in RecipeListParams : RecipeList(u, q)
    \/ \E u \in Users, id \in TagIds, n \in TagNames : TagUpdate(u, id, n)
    \/ \E u \in Users, id \in TagIds : TagDestroy(u, id)
    \/ \E u \in Users, id \in IngredientIds, n \in IngredientNames :
          IngredientUpdate(u, id, n)
    \/ \E u \in Users, id \in IngredientIds : IngredientDestroy(u, id)
    \/ \E u \in Users, q \in AttrListParams : IngredientList(u, q)
    \/ NextAnonymous

SpecAttrs == Init /\ [][NextAttrs]_vars


\* ------------------------------------------------------------ claims
Owned(u) == {r \in DOMAIN recipes : recipes[r].user = u}

NoRepeat(s) == \A i, j \in DOMAIN s : i # j => s[i] # s[j]

\* C1: the answer to a recipe list request by user u holds exactly the
\* recipes whose owner is u, each once: every recipe of u is present and no
\* recipe of another user is.
C1_ListLimitedToUser ==
    response.op = "recipe_list" =>
        /\ response.status = 200
        /\ Range(response.data) = Owned(response.user)
        /\ NoRepeat(response.data)

C1_Witness ==
    /\ response.op = "recipe_list"
    /\ response.data # <<>>
    /\ \E r \in DOMAIN recipes : recipes[r].user # response.user

\* C2: a delete by u of a recipe owned by another user answers 404 and
\* changes nothing stored; a delete by u of a recipe u owns answers 204 and
\* the recipe is gone.
C2_DeleteStep ==
    response'.op = "recipe_delete" =>
        LET u == response'.user
            id == response'.id
        IN /\ (id \in DOMAIN recipes /\ recipes[id].user # u) =>
                  /\ response'.status = 404
                  /\ db' = db
                  /\ id \in DOMAIN recipes'
           /\ (id \in DOMAIN recipes /\ recipes[id].user = u) =>
                  /\ response'.status = 204
                  /\ id \notin DOMAIN recipes'

\* C2, of every step of the system.
C2_DeleteOtherUsers404 == [][C2_DeleteStep]_vars

C2_Witness ==
    /\ response.op = "recipe_delete"
    /\ response.status = 404
    /\ response.id \in DOMAIN recipes
    /\ recipes[response.id].user # response.user

\* C3: a create request by u that succeeds answers 201 and stores a new
\* recipe owned by u, whatever 'user' the body names, with the title,
\* time_minutes and price of the body.
C3_CreateStep ==
    (response'.op = "recipe_create" /\ response'.status # 400) =>
        LET id == response'.id
            p == response'.req
        IN /\ response'.status = 201
           /\ id \notin DOMAIN recipes
           /\ id \in DOMAIN recipes'
           /\ recipes'[id].user = response'.user
           /\ recipes'[id].title = Get(p.title)
           /\ recipes'[id].time_minutes = Get(p.time_minutes)
           /\ recipes'[id].price = Get(p.price)

\* C3, of every step of the system.
C3_CreateStoresOwner == [][C3_CreateStep]_vars

C3_Witness ==
    /\ response.op = "recipe_create"
    /\ response.status = 201
    /\ response.req.user # None
    /\ Get(response.req.user) # response.user
    /\ recipes[response.id].user = response.user

\* C4: no update request (PATCH or PUT), whatever its body, changes the
\* owner of any recipe.
C4_UpdateStep ==
    response'.op \in {"recipe_patch", "recipe_put"} =>
        \A r \in DOMAIN recipes :
            /\ r \in DOMAIN recipes'
            /\ recipes'[r].user = recipes[r].user

\* C4, of every step of the system.
C4_OwnerUnchanged == [][C4_UpdateStep]_vars

C4_Witness ==
    /\ response.op = "recipe_patch"
    /\ response.status = 200
    /\ response.req.user # None
    /\ Get(response.req.user) # recipes[response.id].user


\* C5: a recipe list request by u with a 'tags' parameter returns exactly
\* the recipes of u that have at least one of the listed tags.
C5_FilterByTags ==
    (response.op = "recipe_list" /\ response.req.tags # None) =>
        Range(response.data) =
            {r \in Owned(response.user) :
                recipes[r].tags \cap Range(Get(response.req.tags)) # {}}

\* C6: a recipe list request by u with an 'ingredients' parameter returns
\* exactly the recipes of u that have at least one of the listed ingredients.
C6_FilterByIngredients ==
    (response.op = "recipe_list" /\ response.req.ingredients # None) =>
        Range(response.data) =
            {r \in Owned(response.user) :
                recipes[r].ingredients
                    \cap Range(Get(response.req.ingredients)) # {}}

Assigned(i) == \E r \in DOMAIN recipes : i \in recipes[r].ingredients

\* C7: an ingredient list request by u with assigned_only=1 returns exactly
\* the ingredients of u that are assigned to at least one recipe.
C7_AssignedOnly ==
    (response.op = "ingredient_list" /\ response.req.assigned_only = Some(1))
        => Range(response.data) =
               {i \in DOMAIN ingredients :
                   ingredients[i].user = response.user /\ Assigned(i)}

\* C8: in the answer to an ingredient list request with assigned_only=1
\* each ingredient appears at most once, however many recipes it is
\* assigned to.
C8_FilteredUnique ==
    (response.op = "ingredient_list" /\ response.req.assigned_only = Some(1))
        => NoRepeat(response.data)

C8_Witness ==
    /\ response.op = "ingredient_list"
    /\ response.req.assigned_only = Some(1)
    /\ \E i \in Range(response.data) :
          Cardinality({r \in DOMAIN recipes : i \in recipes[r].ingredients})
              >= 2

\* The link set holds exactly one object owned by u for each listed name and
\* nothing else.
NamedLinks(table, links, u, names) ==
    /\ \A i \in links :
          /\ i \in DOMAIN table
          /\ table[i].user = u
          /\ table[i].name \in Range(names)
    /\ \A n \in Range(names) :
          Cardinality({i \in links : table[i].name = n}) = 1

\* From table "old" to table "new": every listed name u already owned keeps
\* its one object and gains none, every other listed name gains exactly one
\* object owned by u, and no other row is added, changed or removed.
GotOrCreated(old, new, u, names) ==
    /\ \A i \in DOMAIN old : i \in DOMAIN new /\ new[i] = old[i]
    /\ \A i \in DOMAIN new \ DOMAIN old :
          new[i].user = u /\ new[i].name \in Range(names)
    /\ \A n \in Range(names) :
          LET before == {i \in DOMAIN old :
                            old[i].user = u /\ old[i].name = n}
              after == {i \in DOMAIN new :
                            new[i].user = u /\ new[i].name = n}
          IN IF before # {} THEN after = before
             ELSE Cardinality(after) = 1

\* C9: a recipe create by u answered 201 whose body lists tag (ingredient)
\* names links the new recipe to exactly one tag (ingredient) owned by u per
\* distinct name: an object u already owns under that name is reused and no
\* duplicate is made, a name u does not own yet gets a new object owned by u.
C9_CreateStep ==
    (response'.op = "recipe_create" /\ response'.status = 201) =>
        LET id == response'.id
            u == response'.user
            p == response'.req
        IN /\ p.tags # None =>
                /\ NamedLinks(tags', recipes'[id].tags, u, Get(p.tags))
                /\ GotOrCreated(tags, tags', u, Get(p.tags))
           /\ p.ingredients # None =>
                /\ NamedLinks(ingredients', recipes'[id].ingredients, u,
                              Get(p.ingredients))
                /\ GotOrCreated(ingredients, ingredients', u,
                                Get(p.ingredients))

C10_UpdateStep ==
    (response'.op \in {"recipe_patch", "recipe_put"}
        /\ response'.status = 200) =>
        LET id == response'.id
            u == response'.user
            p == response'.req
        IN /\ p.tags # None =>
                /\ NamedLinks(tags', recipes'[id].tags, u, Get(p.tags))
                /\ GotOrCreated(tags, tags', u, Get(p.tags))
                /\ Get(p.tags) = <<>> => recipes'[id].tags = {}
           /\ p.ingredients # None =>
                /\ NamedLinks(ingredients', recipes'[id].ingredients, u,
                              Get(p.ingredients))
                /\ GotOrCreated(ingredients, ingredients', u,
                                Get(p.ingredients))
                /\ Get(p.ingredients) = <<>> => recipes'[id].ingredients = {}

C11_IngredientsLimitedToUser ==
    (response.op = "ingredient_list" /\ response.user \in Users) =>
        /\ response.status = 200
        /\ Range(response.data) =
               {i \in DOMAIN ingredients :
                   ingredients[i].user = response.user}

C11_Witness ==
    /\ response.op = "ingredient_list"
    /\ response.user \in Users
    /\ response.data # <<>>
    /\ \E i \in DOMAIN ingredients : ingredients[i].user # response.user


\* C12: a request to a recipe or ingredient endpoint made without an
\* authenticated user is answered 401, returns no stored data and changes
\* nothing stored.
C12_AnonymousStep ==
    response'.user = AnonymousUser =>
        /\ response'.status = 401
        /\ response'.data = <<>>
        /\ db' = db

\* C12, of every step of the system.
C12_AuthRequired == [][C12_AnonymousStep]_vars

C12_Witness ==
    /\ response.user = AnonymousUser
    /\ response.op \in {"recipe_list", "ingredient_list"}
    /\ response.status = 401
    /\ DOMAIN recipes # {}
    /\ DOMAIN ingredients # {}


\* Every tag and every ingredient linked to a recipe exists and is owned by
\* the recipe's owner.
LinksOwnedByRecipeOwner ==
    \A r \in DOMAIN recipes :
        /\ \A t \in recipes[r].tags :
              t \in DOMAIN tags /\ tags[t].user = recipes[r].user
        /\ \A i \in recipes[r].ingredients :
              i \in DOMAIN ingredients
                 /\ ingredients[i].user = recipes[r].user

\* The request of this step, made by user u, leaves every tag and ingredient
\* of another user as it was: not deleted, not renamed, and linked to no
\* recipe it was not linked to before.
C13_OthersUntouchedStep ==
    LET u == response'.user
    IN /\ \A t \in DOMAIN tags :
             tags[t].user # u =>
                /\ t \in DOMAIN tags'
                /\ tags'[t] = tags[t]
                /\ \A r \in DOMAIN recipes' :
                      t \in recipes'[r].tags =>
                         r \in DOMAIN recipes /\ t \in recipes[r].tags
       /\ \A i \in DOMAIN ingredients :
             ingredients[i].user # u =>
                /\ i \in DOMAIN ingredients'
                /\ ingredients'[i] = ingredients[i]
                /\ \A r \in DOMAIN recipes' :
                      i \in recipes'[r].ingredients =>
                         r \in DOMAIN recipes
                            /\ i \in recipes[r].ingredients

\* C13: in every reachable state each tag and ingredient linked to a recipe
\* is owned by the recipe's owner, and no request by a user links, renames or
\* deletes a tag or ingredient owned by another user.
C13_OwnershipInvariant ==
    [](LinksOwnedByRecipeOwner) /\ [][C13_OthersUntouchedStep]_vars

C13_Witness ==
    /\ response.op = "recipe_create"
    /\ response.status = 201
    /\ \E t \in recipes[response.id].tags :
          \E o \in DOMAIN tags :
             /\ tags[o].user # response.user
             /\ tags[o].name = tags[t].name
             /\ \E r \in DOMAIN recipes : o \in recipes[r].tags

====
